---- MODULE Spec2Model ----
(***************************************************************************)
(* Application record lifecycle and bulk reconciliation of the MPX AppPort *)
(* backend (src/server.py): the applications table, the identifier         *)
(* allocator next_id, and the handlers r_create, r_update, r_decommission, *)
(* r_import and r_list.                                                    *)
(*                                                                         *)
(* Text that the code takes apart (ids, names) is a sequence of one-       *)
(* character strings; other text columns are TLA+ strings.  An Optional    *)
(* value of a request body, and a nullable column, is <<>> for None/NULL   *)
(* and <<v>> for the value v.  Columns that the handlers treat identically *)
(* are represented by one column of each treatment (domain for the plain   *)
(* nullable text columns, tco for the "int(x or 0)" columns, dr for the    *)
(* "int(x or False)" flags, stack for the JSON list columns).              *)
(***************************************************************************)
EXTENDS Integers, Sequences, FiniteSets, TLC

VARIABLES store, today, last, highest, inflight

vars == <<store, today, last, highest, inflight>>

---------------------------------------------------------------------------
(* Bounds of the model *)

MaxRows == 3
MaxLifecycleRows == 2
MaxDay == 1
MaxFieldRows == 2

MaxStoredRows == 2
MaxCalls == 3
MaxRaceRows == 2

(* Largest integer sqlite3 binds; the real limit is 2^63 - 1, scaled. *)
SqliteIntMax == 1000000

---------------------------------------------------------------------------
(* Optional values *)

None == <<>>

Some(v) == <<v>>

IsNone(o) == Len(o) = 0

(* "int(x or 0)" written where the column has another default *)
OrIntZero(o, d) == IF IsNone(o) THEN 0 ELSE o[1]

(* Python "x or d" for the value types of the request bodies *)
OrInt(o, d) == IF IsNone(o) THEN d ELSE IF o[1] = 0 THEN d ELSE o[1]

OrStr(o, d) == IF IsNone(o) THEN d ELSE IF o[1] = "" THEN d ELSE o[1]

OrBool(o, d) == IF IsNone(o) THEN d ELSE IF o[1] = FALSE THEN d ELSE o[1]

OrList(o, d) == IF IsNone(o) THEN d ELSE IF o[1] = <<>> THEN d ELSE o[1]

(* Python int(bool) *)
BoolInt(b) == IF b THEN 1 ELSE 0

---------------------------------------------------------------------------
(* Character strings *)

Digits == <<"0", "1", "2", "3", "4", "5", "6", "7", "8", "9">>

IsDigit(c) == \E i \in 1..10 : Digits[i] = c

DigitVal(c) == (CHOOSE i \in 1..10 : Digits[i] = c) - 1

IsSpace(c) == c = " "

(* Code point of a character: the order of SQLite's BINARY collation *)
Code(c) ==
    CASE c = " " -> 32
      [] c = "-" -> 45
      [] IsDigit(c) -> 48 + DigitVal(c)
      [] c = "A" -> 65
      [] c = "B" -> 66
      [] c = "P" -> 80
      [] c = "X" -> 88
      [] OTHER -> 127

RECURSIVE LStrip(_)
LStrip(s) == IF s = <<>> THEN s ELSE IF IsSpace(Head(s)) THEN LStrip(Tail(s)) ELSE s

RECURSIVE RStrip(_)
RStrip(s) ==
    IF s = <<>> THEN s
    ELSE IF IsSpace(s[Len(s)]) THEN RStrip(SubSeq(s, 1, Len(s) - 1)) ELSE s

(* Python str.strip() *)
Strip(s) == RStrip(LStrip(s))

(* "name or ''" is non-empty: the test without strip() *)
NameGivenUnstripped(o) == IF IsNone(o) THEN FALSE ELSE o[1] # <<>>

(* Python "(name or '').strip()" is non-empty *)
NameGiven(o) == IF IsNone(o) THEN FALSE ELSE Strip(o[1]) # <<>>

(* SQL SUBSTR(s, n): from the n-th character (1-based) to the end *)
Substr(s, n) == SubSeq(s, n, Len(s))

RECURSIVE DigitPrefix(_)
DigitPrefix(s) ==
    IF s = <<>> THEN <<>>
    ELSE IF IsDigit(Head(s)) THEN <<Head(s)>> \o DigitPrefix(Tail(s)) ELSE <<>>

RECURSIVE DigitsValue(_)
DigitsValue(s) ==
    IF s = <<>> THEN 0 ELSE 10 * DigitsValue(SubSeq(s, 1, Len(s) - 1)) + DigitVal(s[Len(s)])

(* SQL CAST(text AS INTEGER): leading blanks are skipped, then the longest *)
(* prefix that reads as an optionally signed integer; 0 when there is none *)
CastInteger(s) ==
    LET t == LStrip(s)
    IN  IF t = <<>> THEN 0
        ELSE IF Head(t) = "-" THEN 0 - DigitsValue(DigitPrefix(Tail(t)))
        ELSE DigitsValue(DigitPrefix(t))

RECURSIVE UntilDash(_)
UntilDash(s) ==
    IF s = <<>> THEN <<>>
    ELSE IF Head(s) = "-" THEN <<>> ELSE <<Head(s)>> \o UntilDash(Tail(s))

HasDash(s) == \E i \in 1..Len(s) : s[i] = "-"

(* Python s.split('-')[1], defined when s holds a '-' (else IndexError) *)
SplitDash1(s) ==
    LET first == UntilDash(s)
    IN  UntilDash(Substr(s, Len(first) + 2))

(* Python int(text) succeeds: blanks around a non-empty run of digits *)
IntParses(s) ==
    LET t == Strip(s)
    IN  /\ t # <<>>
        /\ \A i \in 1..Len(t) : IsDigit(t[i])

PyInt(s) == DigitsValue(Strip(s))

RECURSIVE DigitsOf(_)
DigitsOf(n) ==
    IF n < 10 THEN <<Digits[n + 1]>> ELSE DigitsOf(n \div 10) \o <<Digits[(n % 10) + 1]>>

RECURSIVE ZeroPad(_, _)
ZeroPad(s, w) == IF Len(s) >= w THEN s ELSE ZeroPad(<<"0">> \o s, w)

Format03dCapped(n) == ZeroPad(DigitsOf(n % 1000), 3)

(* Python f"{n:03d}" for n >= 0 *)
Format03d(n) == ZeroPad(DigitsOf(n), 3)

AppPrefix == <<"A", "P", "P", "-">>

AppId(n) == AppPrefix \o Format03d(n)

(* memcmp order of two character strings: a sorts strictly before b *)
RECURSIVE TextLess(_, _)
TextLess(a, b) ==
    IF b = <<>> THEN FALSE
    ELSE IF a = <<>> THEN TRUE
    ELSE IF Code(Head(a)) < Code(Head(b)) THEN TRUE
    ELSE IF Code(Head(a)) > Code(Head(b)) THEN FALSE
    ELSE TextLess(Tail(a), Tail(b))

---------------------------------------------------------------------------
(* JSON text of a list column: json.dumps(list of str), as tokens *)

RECURSIVE JsonItems(_)
JsonItems(l) ==
    IF l = <<>> THEN <<>>
    ELSE IF Len(l) = 1 THEN <<"\"", l[1], "\"">>
    ELSE <<"\"", l[1], "\"", ", ">> \o JsonItems(Tail(l))

JsonDumps(l) == <<"[">> \o JsonItems(l) \o <<"]">>

JsonDelimiters == {"[", "]", "\"", ", "}

(* The text is a JSON array of strings: "[", items in quotes with ", "     *)
(* between them, "]"                                                       *)
IsJsonList(t) ==
    /\ Len(t) >= 2
    /\ t[1] = "[" /\ t[Len(t)] = "]"
    /\ LET inner == SubSeq(t, 2, Len(t) - 1)
       IN  \/ inner = <<>>
           \/ /\ Len(inner) % 4 = 3
              /\ \A i \in 1..Len(inner) :
                    CASE i % 4 = 1 -> inner[i] = "\""
                      [] i % 4 = 2 -> inner[i] \notin JsonDelimiters
                      [] i % 4 = 3 -> inner[i] = "\""
                      [] OTHER -> inner[i] = ", "

(* Python values a JSON text decodes to: the type, for a list the types of *)
(* its elements, and the elements (or the scalar) as text                  *)
PyList(l) == [type |-> "list", of |-> IF l = <<>> THEN {} ELSE {"str"}, items |-> l]

PyScalar(type, text) == [type |-> type, of |-> {}, items |-> <<text>>]

PyDict == [type |-> "dict", of |-> {}, items |-> <<>>]

JsonNumbers == {"0", "5"}

JsonLiterals == {"null", "true", "false"}

LiteralType(tok) == IF tok = "null" THEN "NoneType" ELSE "bool"

(* The scalar a text starts with: a string in quotes, a number, a literal; *)
(* n = 0 when it starts with none                                          *)
JsonScalar(s) ==
    IF Len(s) >= 3 /\ s[1] = "\"" /\ s[2] \notin JsonDelimiters /\ s[3] = "\""
    THEN [n |-> 3, type |-> "str", text |-> s[2]]
    ELSE IF Len(s) >= 1 /\ s[1] \in JsonNumbers
    THEN [n |-> 1, type |-> "int", text |-> s[1]]
    ELSE IF Len(s) >= 1 /\ s[1] \in JsonLiterals
    THEN [n |-> 1, type |-> LiteralType(s[1]), text |-> s[1]]
    ELSE [n |-> 0, type |-> "", text |-> ""]

(* The elements of an array, scalars with ", " between them *)
RECURSIVE JsonElements(_)
JsonElements(s) ==
    LET e == JsonScalar(s)
        rest == SubSeq(s, e.n + 1, Len(s))
    IN  IF e.n = 0 THEN [ok |-> FALSE, of |-> {}, items |-> <<>>]
        ELSE IF rest = <<>> THEN [ok |-> TRUE, of |-> {e.type}, items |-> <<e.text>>]
        ELSE IF rest[1] # ", " THEN [ok |-> FALSE, of |-> {}, items |-> <<>>]
        ELSE LET more == JsonElements(Tail(rest))
             IN  [ok |-> more.ok, of |-> {e.type} \cup more.of,
                  items |-> <<e.text>> \o more.items]

(* json.loads(text): the value, or ok = FALSE for a JSONDecodeError *)
JsonDecode(t) ==
    IF IsJsonList(t)
    THEN [ok |-> TRUE,
          value |-> PyList([k \in 1..((Len(t) - 1) \div 4) |-> t[4 * k - 1]])]
    ELSE IF Len(t) >= 3 /\ t[1] = "[" /\ t[Len(t)] = "]"
    THEN LET e == JsonElements(SubSeq(t, 2, Len(t) - 1))
         IN  [ok |-> e.ok, value |-> [type |-> "list", of |-> e.of, items |-> e.items]]
    ELSE IF t = <<"{", "}">> THEN [ok |-> TRUE, value |-> PyDict]
    ELSE LET e == JsonScalar(t)
         IN  [ok |-> e.n > 0 /\ e.n = Len(t), value |-> PyScalar(e.type, e.text)]

(* json.loads(text or "[]") with the JSONDecodeError handler of row_to_dict *)
JsonLoads(t) ==
    IF t = <<>> THEN PyList(<<>>)
    ELSE IF JsonDecode(t).ok THEN JsonDecode(t).value
    ELSE PyList(<<>>)

---------------------------------------------------------------------------
(* Request bodies: AppWrite, ImportApp, DecommBody *)

AppWrite ==
    [name |-> None, domain |-> None, type |-> None, status |-> None, bcg |-> None,
     health |-> None, tech_debt |-> None, tco |-> None, criticality |-> None,
     dr |-> None, stack |-> None, strategic |-> None, persons |-> None,
     src_avail |-> None, service_hour |-> None, support |-> None,
     approach |-> None, assess_status |-> None, wave |-> None,
     ea_sub_category |-> None]

ImportApp ==
    [id |-> None, name |-> None, domain |-> None, type |-> None, status |-> None,
     bcg |-> None, health |-> None, tech_debt |-> None, tco |-> None,
     criticality |-> None, dr |-> None, stack |-> None, strategic |-> None,
     persons |-> None, src_avail |-> None, service_hour |-> None,
     support |-> None, approach |-> None, assess_status |-> None, wave |-> None,
     ea_sub_category |-> None]

(* decomm_reason defaults to the module's "not specified" text *)
DecommBody == [decomm_date |-> "2026-01-31", decomm_reason |-> Some("unspecified")]

---------------------------------------------------------------------------
(* The applications table: store maps the ids present to their rows *)

IntColumns == {"health", "tech_debt", "tco", "strategic", "persons", "wave"}

(* sqlite3 raises OverflowError when it binds an integer beyond 64 bits *)
Overflows(row) == \E f \in IntColumns : row[f] > SqliteIntMax

Put(st, id, row) == [i \in (DOMAIN st) \cup {id} |-> IF i = id THEN row ELSE st[i]]

(* One row of _seed_apps: the values of APP-001, name shortened *)
SeedRow ==
    [name |-> <<"S", "A", "P">>, domain |-> Some("Finance"), type |-> "Package",
     status |-> "Active", bcg |-> "Invest", health |-> 88, tech_debt |-> 12,
     tco |-> 4200, criticality |-> "Mission Critical", dr |-> 1,
     stack |-> JsonDumps(<<"ABAP", "SAP UI5", "HANA">>), strategic |-> 92,
     persons |-> 8, src_avail |-> 1, service_hour |-> Some("24x7"),
     support |-> Some("Vendor+Inhouse"), approach |-> Some("Upgrade"),
     assess_status |-> Some("Completed"), wave |-> 1, ea_sub_category |-> "-",
     decommissioned |-> 0, decomm_date |-> None, decomm_reason |-> None,
     last_updated |-> 0]

(* The table at the start: the first seed row *)
SeedStore == [i \in {AppId(1)} |-> SeedRow]

---------------------------------------------------------------------------
(* Identifier allocator *)

SortKey(id) == CastInteger(Substr(id, 5))

(* Rows that "ORDER BY CAST(SUBSTR(id, 5) AS INTEGER) DESC LIMIT 1" may   *)
(* return: any row of greatest key (the order among equal keys is not     *)
(* specified by SQL)                                                       *)
TopRows(st) == {i \in DOMAIN st : \A j \in DOMAIN st : SortKey(j) <= SortKey(i)}

IdAfter(id) ==
    IF HasDash(id)
    THEN IF IntParses(SplitDash1(id)) THEN AppId(PyInt(SplitDash1(id)) + 1) ELSE AppId(1)
    ELSE AppId(1)

(* The ids next_id may return in a store *)
next_id(st) ==
    IF DOMAIN st = {} THEN {IdAfter(AppId(0))} ELSE {IdAfter(i) : i \in TopRows(st)}

---------------------------------------------------------------------------
(* Rows written by the handlers *)

CreateRow(body, day) ==
    LET h == OrInt(body.health, 75)
    IN  [name |-> body.name[1], domain |-> body.domain,
         type |-> OrStr(body.type, "Package"), status |-> OrStr(body.status, "Active"),
         bcg |-> OrStr(body.bcg, "Tolerate"), health |-> h,
         tech_debt |-> OrInt(body.tech_debt, 100 - h), tco |-> OrInt(body.tco, 0),
         criticality |-> OrStr(body.criticality, "Medium"),
         dr |-> BoolInt(OrBool(body.dr, FALSE)),
         stack |-> JsonDumps(OrList(body.stack, <<>>)),
         strategic |-> OrInt(body.strategic, 70), persons |-> OrInt(body.persons, 1),
         src_avail |-> IF IsNone(body.src_avail) THEN 1 ELSE BoolInt(body.src_avail[1]),
         service_hour |-> Some(OrStr(body.service_hour, "Business Hours")),
         support |-> Some(OrStr(body.support, "Inhouse")),
         approach |-> Some(OrStr(body.approach, "Upgrade")),
         assess_status |-> Some(OrStr(body.assess_status, "Not Started")),
         wave |-> OrInt(body.wave, 3),
         ea_sub_category |-> OrStr(body.ea_sub_category, "-"),
         decommissioned |-> 0, decomm_date |-> None, decomm_reason |-> None,
         last_updated |-> day]

(* c[k] = v for the supplied fields of an update, else the column value *)
Merged(o, col) == IF IsNone(o) THEN col ELSE o[1]

MergedOpt(o, col) == IF IsNone(o) THEN col ELSE o

ZeroOr(n, d) == IF n = 0 THEN d ELSE n

UpdateRow(row, body, day) ==
    LET h == ZeroOr(Merged(body.health, row.health), 75)
    IN  [row EXCEPT
         !.name = Merged(body.name, row.name),
         !.domain = MergedOpt(body.domain, row.domain),
         !.type = Merged(body.type, row.type),
         !.status = Merged(body.status, row.status),
         !.bcg = Merged(body.bcg, row.bcg),
         !.health = h,
         !.tech_debt = ZeroOr(Merged(body.tech_debt, row.tech_debt), 100 - h),
         !.tco = Merged(body.tco, row.tco),
         !.criticality = Merged(body.criticality, row.criticality),
         !.dr = IF IsNone(body.dr) THEN row.dr ELSE BoolInt(body.dr[1]),
         !.stack = IF IsNone(body.stack) THEN row.stack ELSE JsonDumps(body.stack[1]),
         !.strategic = ZeroOr(Merged(body.strategic, row.strategic), 70),
         !.persons = ZeroOr(Merged(body.persons, row.persons), 1),
         !.src_avail = IF IsNone(body.src_avail) THEN row.src_avail
                       ELSE BoolInt(body.src_avail[1]),
         !.service_hour = MergedOpt(body.service_hour, row.service_hour),
         !.support = MergedOpt(body.support, row.support),
         !.approach = MergedOpt(body.approach, row.approach),
         !.assess_status = MergedOpt(body.assess_status, row.assess_status),
         !.wave = ZeroOr(Merged(body.wave, row.wave), 3),
         !.ea_sub_category =
             IF Merged(body.ea_sub_category, row.ea_sub_category) = "" THEN "-"
             ELSE Merged(body.ea_sub_category, row.ea_sub_category),
         !.last_updated = day]

(* An UPDATE that sets the flag and the date but not the status *)
DecommissionRowFlagOnly(row, body, day) ==
    [row EXCEPT !.decommissioned = 1, !.decomm_date = Some(body.decomm_date),
                !.decomm_reason = body.decomm_reason, !.last_updated = day]

DecommissionRow(row, body, day) ==
    [row EXCEPT !.decommissioned = 1, !.status = "Decommissioned",
                !.decomm_date = Some(body.decomm_date),
                !.decomm_reason = body.decomm_reason, !.last_updated = day]

(* The row r_import writes for a candidate: the INSERT and the UPDATE bind *)
(* the same column values; the decommission columns are set by the INSERT  *)
(* and left alone by the UPDATE                                            *)
ImportRow(a, day, decommissioned, decomm_date, decomm_reason) ==
    LET h == OrInt(a.health, 75)
    IN  [name |-> a.name[1], domain |-> a.domain,
         type |-> OrStr(a.type, "Package"), status |-> OrStr(a.status, "Active"),
         bcg |-> OrStr(a.bcg, "Tolerate"), health |-> h,
         tech_debt |-> IF IsNone(a.tech_debt) THEN 100 - h ELSE a.tech_debt[1],
         tco |-> OrInt(a.tco, 0), criticality |-> OrStr(a.criticality, "Medium"),
         dr |-> BoolInt(OrBool(a.dr, FALSE)),
         stack |-> JsonDumps(OrList(a.stack, <<>>)),
         strategic |-> OrInt(a.strategic, 70), persons |-> OrInt(a.persons, 1),
         src_avail |-> IF IsNone(a.src_avail) THEN 1 ELSE BoolInt(a.src_avail[1]),
         service_hour |-> a.service_hour, support |-> a.support,
         approach |-> a.approach, assess_status |-> a.assess_status,
         wave |-> OrInt(a.wave, 3),
         ea_sub_category |-> OrStr(a.ea_sub_category, "-"),
         decommissioned |-> decommissioned, decomm_date |-> decomm_date,
         decomm_reason |-> decomm_reason, last_updated |-> day]

(* The dict a read returns for a row: the list column decoded, the flags   *)
(* as booleans                                                             *)
row_to_dict(row) ==
    [row EXCEPT !.stack = JsonLoads(row.stack), !.dr = (row.dr # 0),
                !.src_avail = (row.src_avail # 0),
                !.decommissioned = (row.decommissioned # 0)]

ImportInsertRow(a, day) == ImportRow(a, day, 0, None, None)

(* An UPDATE that also writes the decommission columns of a new row *)
ImportUpdateRowResets(row, a, day) == ImportInsertRow(a, day)

(* An UPDATE whose tech_debt default is taken from the health stored before *)
ImportUpdateRowStaleHealth(row, a, day) ==
    [ImportRow(a, day, row.decommissioned, row.decomm_date, row.decomm_reason)
        EXCEPT !.tech_debt = IF IsNone(a.tech_debt) THEN 100 - row.health
                             ELSE a.tech_debt[1]]

ImportUpdateRow(row, a, day) ==
    ImportRow(a, day, row.decommissioned, row.decomm_date, row.decomm_reason)

---------------------------------------------------------------------------
(* highest is the greatest number in an id that r_create has returned so   *)
(* far (0 before the first), kept to state what later creates return.      *)

(* The response to the last call: the handler, the HTTP status, the detail *)
(* or message, and the payload                                             *)

NoCall ==
    [op |-> "none", status |-> 0, detail |-> "", id |-> <<>>, added |-> 0,
     updated |-> 0, errors |-> 0, total |-> 0, listing |-> <<>>, record |-> <<>>]

EmptyStore == [i \in {} |-> SeedRow]

(* The calls that may run at the same time, each on a thread of its own,   *)
(* and what the handler of each holds between its statements: the request *)
(* and the row or id its SELECT returned.  A call is "idle" before it      *)
(* arrives and "done", with its id and status, once it has been answered.  *)
Calls == 1..MaxCalls

Idle ==
    [pc |-> "idle", op |-> "none", app_id |-> <<>>, body |-> AppWrite,
     decomm |-> DecommBody, row |-> <<>>, status |-> 0]

Init ==
    /\ store = SeedStore
    /\ today = 0
    /\ last = NoCall
    /\ highest = 0
    /\ inflight = [w \in Calls |-> Idle]

---------------------------------------------------------------------------
(* POST /api/apps *)

r_create(body) ==
    /\ Cardinality(DOMAIN store) < MaxRows
    /\ today' = today
    /\ IF ~NameGiven(body.name)
       THEN /\ last' = [NoCall EXCEPT !.op = "create", !.status = 400,
                                      !.detail = "name is required"]
            /\ UNCHANGED <<store, highest>>
       ELSE \E aid \in next_id(store) :
              LET row == CreateRow(body, today)
              IN  IF Overflows(row)
                  THEN /\ last' = [NoCall EXCEPT !.op = "create", !.status = 500, !.detail = "OverflowError"]
                       /\ UNCHANGED <<store, highest>>
                  ELSE IF aid \in DOMAIN store
                  THEN /\ last' = [NoCall EXCEPT !.op = "create", !.status = 500, !.detail = "IntegrityError"]
                       /\ UNCHANGED <<store, highest>>
                  ELSE /\ store' = Put(store, aid, row)
                       /\ highest' = IF SortKey(aid) > highest THEN SortKey(aid) ELSE highest
                       /\ last' = [NoCall EXCEPT !.op = "create", !.status = 201, !.detail = "Created", !.id = aid]

(* "if row['decommissioned']" of the update and decommission guards *)
NeverDecommissioned(row) == FALSE

IsDecommissioned(row) == row.decommissioned # 0

(* PUT /api/apps/{app_id} *)

r_update(app_id, body) ==
    /\ UNCHANGED <<today, highest>>
    /\ IF app_id \notin DOMAIN store
       THEN /\ last' = [NoCall EXCEPT !.op = "update", !.id = app_id, !.status = 404, !.detail = "not found"]
            /\ UNCHANGED store
       ELSE IF IsDecommissioned(store[app_id])
       THEN /\ last' = [NoCall EXCEPT !.op = "update", !.id = app_id, !.status = 400,
                            !.detail = "Cannot update a decommissioned application"]
            /\ UNCHANGED store
       ELSE LET row == UpdateRow(store[app_id], body, today)
            IN  IF Overflows(row)
                THEN /\ last' = [NoCall EXCEPT !.op = "update", !.id = app_id,
                                     !.status = 500,
                                     !.detail = "OverflowError"]
                     /\ UNCHANGED store
                ELSE /\ store' = Put(store, app_id, row)
                     /\ last' = [NoCall EXCEPT !.op = "update", !.id = app_id,
                                     !.status = 200, !.detail = "Updated"]

(* POST /api/apps/{app_id}/decommission *)

r_decommission(app_id, body) ==
    /\ UNCHANGED <<today, highest>>
    /\ IF app_id \notin DOMAIN store
       THEN /\ last' = [NoCall EXCEPT !.op = "decommission", !.id = app_id,
                            !.status = 404, !.detail = "not found"]
            /\ UNCHANGED store
       ELSE IF IsDecommissioned(store[app_id])
       THEN /\ last' = [NoCall EXCEPT !.op = "decommission", !.id = app_id,
                            !.status = 400,
                            !.detail = "Already decommissioned"]
            /\ UNCHANGED store
       ELSE /\ store' = Put(store, app_id, DecommissionRow(store[app_id], body, today))
            /\ last' = [NoCall EXCEPT !.op = "decommission", !.id = app_id,
                            !.status = 200, !.detail = "Decommissioned"]

---------------------------------------------------------------------------
(* POST /api/import *)

IsValidAppUnstripped(a) ==
    /\ ~IsNone(a.id)
    /\ a.id[1] # <<>>
    /\ ~IsNone(a.name)
    /\ a.name[1] # <<>>

IsValidApp(a) ==
    /\ ~IsNone(a.id)
    /\ a.id[1] # <<>>
    /\ NameGiven(a.name)

valid_apps(apps) == SelectSeq(apps, IsValidApp)

AnyMode(mode) == TRUE

ModeKnown(mode) == mode \in {"upsert", "replace"}

NeverAborts(apps, mode) == FALSE

(* The replace that is refused because no candidate is valid *)
ReplaceAborts(apps, mode) == mode = "replace" /\ valid_apps(apps) = <<>>

(* A loop body that refuses the rows that are decommissioned *)
ImportOneGuarded(st, a, day) ==
    LET id == a.id[1]
        existing == id \in DOMAIN st
        row == IF existing THEN ImportUpdateRow(st[id], a, day)
               ELSE ImportInsertRow(a, day)
    IN  IF Overflows(row) \/ (existing /\ st[id].decommissioned # 0)
        THEN [store |-> st, kind |-> "error"]
        ELSE [store |-> Put(st, id, row),
              kind |-> IF existing THEN "updated" ELSE "added"]

(* A loop body that never looks the id up and always INSERTs: a row with   *)
(* the id makes the write fail on the primary key                          *)
ImportOneInsertOnly(st, a, day) ==
    LET id == a.id[1]
        row == ImportInsertRow(a, day)
    IN  IF Overflows(row) \/ id \in DOMAIN st THEN [store |-> st, kind |-> "error"]
        ELSE [store |-> Put(st, id, row), kind |-> "added"]

(* The body of the loop for one valid candidate, with its try/except *)
ImportOne(st, a, day) ==
    LET id == a.id[1]
        existing == id \in DOMAIN st
        row == IF existing THEN ImportUpdateRow(st[id], a, day)
               ELSE ImportInsertRow(a, day)
    IN  IF Overflows(row) THEN [store |-> st, kind |-> "error"]
        ELSE [store |-> Put(st, id, row),
              kind |-> IF existing THEN "updated" ELSE "added"]

RECURSIVE ImportLoopStops(_, _, _, _)
ImportLoopStops(st, apps, day, acc) ==
    IF apps = <<>> THEN [acc EXCEPT !.store = st]
    ELSE LET r == ImportOne(st, Head(apps), day)
         IN  IF r.kind = "error" THEN [acc EXCEPT !.store = st, !.error = acc.error + 1]
             ELSE ImportLoopStops(r.store, Tail(apps), day,
                                  [acc EXCEPT ![r.kind] = acc[r.kind] + 1])

RECURSIVE ImportLoop(_, _, _, _)
ImportLoop(st, apps, day, acc) ==
    IF apps = <<>> THEN [acc EXCEPT !.store = st]
    ELSE LET r == ImportOne(st, Head(apps), day)
         IN  ImportLoop(r.store, Tail(apps), day,
                        [acc EXCEPT ![r.kind] = acc[r.kind] + 1])

(* A reconcile that clears the table in neither mode *)
ImportResultNeverClears(st, apps, mode, day) ==
    LET valid == valid_apps(apps)
        counts == [store |-> st, added |-> 0, updated |-> 0,
                   error |-> Len(apps) - Len(valid)]
    IN  ImportLoop(st, valid, day, counts)

(* A reconcile that clears the table in either mode *)
ImportResultAlwaysClears(st, apps, mode, day) ==
    LET valid == valid_apps(apps)
        counts == [store |-> st, added |-> 0, updated |-> 0,
                   error |-> Len(apps) - Len(valid)]
    IN  ImportLoop(EmptyStore, valid, day, counts)

(* A reconcile whose error count starts at 0: the candidates that are not *)
(* valid are not counted                                                   *)
ImportResultForgetsInvalid(st, apps, mode, day) ==
    LET valid == valid_apps(apps)
        start == IF mode = "replace" THEN EmptyStore ELSE st
        counts == [store |-> st, added |-> 0, updated |-> 0, error |-> 0]
    IN  ImportLoop(start, valid, day, counts)

ImportResult(st, apps, mode, day) ==
    LET valid == valid_apps(apps)
        start == IF mode = "replace" THEN EmptyStore ELSE st
        counts == [store |-> st, added |-> 0, updated |-> 0,
                   error |-> Len(apps) - Len(valid)]
    IN  ImportLoop(start, valid, day, counts)

r_import(apps, mode) ==
    /\ UNCHANGED <<today, highest>>
    /\ IF ~ModeKnown(mode)
       THEN /\ last' = [NoCall EXCEPT !.op = "import", !.status = 400, !.detail = "Invalid mode"]
            /\ UNCHANGED store
       ELSE IF apps = <<>>
       THEN /\ last' = [NoCall EXCEPT !.op = "import", !.status = 400, !.detail = "No apps provided"]
            /\ UNCHANGED store
       ELSE IF ReplaceAborts(apps, mode)
       THEN /\ last' = [NoCall EXCEPT !.op = "import", !.status = 400, !.detail = "No valid apps to import"]
            /\ UNCHANGED store
       ELSE \E r \in {ImportResult(store, apps, mode, today)} :
                /\ Cardinality(DOMAIN r.store) <= MaxRows
                /\ store' = r.store
                /\ last' = [NoCall EXCEPT !.op = "import", !.status = 200,
                                !.detail = "Import complete", !.added = r.added,
                                !.updated = r.updated, !.errors = r.error,
                                !.total = r.added + r.updated]

---------------------------------------------------------------------------
(* GET /api/apps/{app_id} *)

r_get(app_id) ==
    /\ UNCHANGED <<store, today, highest>>
    /\ IF app_id \notin DOMAIN store
       THEN last' = [NoCall EXCEPT !.op = "get", !.id = app_id, !.status = 404,
                                   !.detail = "not found"]
       ELSE last' = [NoCall EXCEPT !.op = "get", !.id = app_id, !.status = 200,
                                   !.record = <<row_to_dict(store[app_id])>>]

---------------------------------------------------------------------------
(* GET /api/apps *)

TextMin(S) == CHOOSE a \in S : \A b \in S \ {a} : TextLess(a, b)

(* "ORDER BY id" on the TEXT primary key *)
RECURSIVE OrderById(_)
OrderById(S) == IF S = {} THEN <<>> ELSE <<TextMin(S)>> \o OrderById(S \ {TextMin(S)})

r_list(show_decomm) ==
    /\ UNCHANGED <<store, today, highest>>
    /\ last' = [NoCall EXCEPT !.op = "list", !.status = 200,
                    !.listing = OrderById({i \in DOMAIN store :
                                     show_decomm \/ store[i].decommissioned = 0})]

(* The date of datetime.now() moves on *)
Tick ==
    /\ today < MaxDay
    /\ today' = today + 1
    /\ UNCHANGED <<store, last, highest, inflight>>

---------------------------------------------------------------------------
(* Requests *)

NameA == <<"A">>

NameB == <<"B">>

Blank == <<" ">>

Huge == SqliteIntMax + 1

(* An imported id without '-' whose characters from the fifth on read 9 *)
IdNoDash == <<"A", "P", "P", "X", "9">>

CreateBodies ==
    {AppWrite,
     [AppWrite EXCEPT !.name = Some(<<>>)],
     [AppWrite EXCEPT !.name = Some(Blank)],
     [AppWrite EXCEPT !.name = Some(NameA)],
     [AppWrite EXCEPT !.name = Some(NameB), !.tco = Some(Huge)]}

UpdateBodies ==
    {[AppWrite EXCEPT !.name = Some(NameB)],
     [AppWrite EXCEPT !.status = Some("Phase-out"), !.tco = Some(Huge)]}

DecommBodies ==
    {DecommBody,
     [decomm_date |-> "2026-02-28", decomm_reason |-> Some("EOL")]}

NewA == [ImportApp EXCEPT !.id = Some(AppId(2)), !.name = Some(NameA)]

NewB == [ImportApp EXCEPT !.id = Some(AppId(999)), !.name = Some(NameB)]

NoDash == [ImportApp EXCEPT !.id = Some(IdNoDash), !.name = Some(NameA)]

NoId == [ImportApp EXCEPT !.name = Some(NameA)]

BlankName == [ImportApp EXCEPT !.id = Some(AppId(1)), !.name = Some(Blank)]

SeedB == [ImportApp EXCEPT !.id = Some(AppId(1)), !.name = Some(NameB)]

TooBig == [ImportApp EXCEPT !.id = Some(AppId(1)), !.name = Some(NameA),
                            !.tco = Some(Huge)]

Batches ==
    {<<>>, <<NoId>>, <<NoId, BlankName>>, <<SeedB>>, <<NewB>>, <<NoDash>>,
     <<BlankName, NewA>>, <<TooBig>>, <<NewA, TooBig, NewB>>, <<NewA, NewA>>}

Modes == {"upsert", "replace"}

(* Every batch in both modes, and two batches in a mode that does not exist *)
ImportRequests == (Batches \X Modes) \cup ({<<>>, <<SeedB>>} \X {"merge"})

TargetIds == (DOMAIN store) \cup {AppId(0)}

Create ==
    /\ \E body \in CreateBodies : r_create(body)
    /\ UNCHANGED inflight

Update ==
    /\ \E app_id \in TargetIds, body \in UpdateBodies : r_update(app_id, body)
    /\ UNCHANGED inflight

Decommission ==
    /\ \E app_id \in TargetIds, body \in DecommBodies : r_decommission(app_id, body)
    /\ UNCHANGED inflight

Import ==
    /\ \E req \in ImportRequests : r_import(req[1], req[2])
    /\ UNCHANGED inflight

List ==
    /\ \E show_decomm \in BOOLEAN : r_list(show_decomm)
    /\ UNCHANGED inflight

(* The whole service *)
Next == Create \/ Update \/ Decommission \/ Import \/ List \/ Tick

Spec == Init /\ [][Next]_vars

CreateNamed ==
    /\ r_create([AppWrite EXCEPT !.name = Some(NameA)])
    /\ UNCHANGED inflight

(* Reconciliation of every batch, between creates *)
NextReconcile == CreateNamed \/ Import

SpecReconcile == Init /\ [][NextReconcile]_vars

(* Allocation and listing, with the reconciliations that decide which ids *)
(* the table holds                                                        *)
IdBatches == {<<SeedB>>, <<NewB>>, <<NoDash>>, <<TooBig>>, <<BlankName, NewA>>}

Load ==
    /\ \E apps \in IdBatches, mode \in Modes : r_import(apps, mode)
    /\ UNCHANGED inflight

NextAllocate == Create \/ Load \/ List

SpecAllocate == Init /\ [][NextAllocate]_vars

(* Single-record lifecycle, with the reconciliations that touch one record *)
LifecycleBatches == {<<SeedB>>}

Resync ==
    /\ \E apps \in LifecycleBatches, mode \in Modes : r_import(apps, mode)
    /\ UNCHANGED inflight

Retire ==
    /\ \E app_id \in TargetIds : r_decommission(app_id, DecommBody)
    /\ UNCHANGED inflight

Rename ==
    /\ \E app_id \in TargetIds : r_update(app_id, [AppWrite EXCEPT !.name = Some(NameB)])
    /\ UNCHANGED inflight

CreateFew ==
    /\ Cardinality(DOMAIN store) < MaxLifecycleRows
    /\ r_create([AppWrite EXCEPT !.name = Some(NameA)])
    /\ UNCHANGED inflight

NextLifecycle == CreateFew \/ Rename \/ Retire \/ Resync \/ Tick

SpecLifecycle == Init /\ [][NextLifecycle]_vars

(* Reconciliation over records that may be decommissioned *)
ReplaceBatches == {<<SeedB>>, <<BlankName, NewA>>, <<NewA, NewA>>, <<NewA, SeedB>>}

Swap ==
    /\ \E apps \in ReplaceBatches, mode \in Modes : r_import(apps, mode)
    /\ UNCHANGED inflight

NextReplace == CreateFew \/ Rename \/ Retire \/ Swap

SpecReplace == Init /\ [][NextReplace]_vars

(* Names: the creates, and the updates that carry a name *)
NameBodies ==
    {[AppWrite EXCEPT !.name = Some(NameB)],
     [AppWrite EXCEPT !.name = Some(Blank)],
     [AppWrite EXCEPT !.name = Some(<<>>)]}

Retitle ==
    /\ \E app_id \in TargetIds, body \in NameBodies : r_update(app_id, body)
    /\ UNCHANGED inflight

NextNames == Create \/ Retitle \/ Resync

SpecNames == Init /\ [][NextNames]_vars

(* Field values: what create, update and reconcile store for the values   *)
(* they are given, and what a read returns                                 *)
NameOnly == [AppWrite EXCEPT !.name = Some(NameA)]

NameC == <<"B", "A">>

ZeroFields ==
    [AppWrite EXCEPT !.name = Some(NameC), !.health = Some(0), !.tech_debt = Some(0),
                     !.strategic = Some(0), !.persons = Some(0), !.wave = Some(0),
                     !.src_avail = Some(FALSE)]

FullFields ==
    [AppWrite EXCEPT !.name = Some(NameB), !.domain = Some("HR"),
                     !.status = Some("Phase-out"), !.health = Some(40),
                     !.tech_debt = Some(10), !.stack = Some(<<"Go">>),
                     !.strategic = Some(55), !.src_avail = Some(FALSE)]

FieldCreateBodies == {NameOnly, ZeroFields, FullFields}

FieldUpdateBodies ==
    {[AppWrite EXCEPT !.name = Some(NameB)],
     [AppWrite EXCEPT !.tech_debt = Some(0)],
     [AppWrite EXCEPT !.health = Some(60), !.stack = Some(<<"Go", "SQL">>)]}

ZeroDebt ==
    [ImportApp EXCEPT !.id = Some(AppId(2)), !.name = Some(NameA),
                      !.health = Some(50), !.tech_debt = Some(0)]

FieldBatches == {<<ZeroDebt>>}

CreateWith ==
    /\ Cardinality(DOMAIN store) < MaxFieldRows
    /\ \E body \in FieldCreateBodies : r_create(body)
    /\ UNCHANGED inflight

Edit ==
    /\ \E app_id \in TargetIds, body \in FieldUpdateBodies : r_update(app_id, body)
    /\ UNCHANGED inflight

Feed ==
    /\ \E apps \in FieldBatches : r_import(apps, "upsert")
    /\ UNCHANGED inflight

Fetch ==
    /\ \E app_id \in TargetIds : r_get(app_id)
    /\ UNCHANGED inflight

NextFields == CreateWith \/ Edit \/ Feed \/ Fetch

SpecFields == Init /\ [][NextFields]_vars

---------------------------------------------------------------------------
(* Reads of a database file whose list column holds any text: the text of  *)
(* json.dumps, NULL or the empty text, text that is not JSON, and JSON     *)
(* that is not an array of strings                                         *)

StoredEncodings ==
    {<<>>,
     JsonDumps(<<>>),
     JsonDumps(<<"Go">>),
     JsonDumps(<<"Go", "SQL">>),
     <<"[", "\"", "Go">>,
     <<"Go">>,
     <<"[", "\"", "Go", "\"", ", ", "]">>,
     <<"5">>,
     <<"null">>,
     <<"{", "}">>,
     <<"\"", "Go", "\"">>,
     <<"[", "5", "]">>}

StoredIds == {AppId(n) : n \in 1..MaxStoredRows}

InitDecode ==
    /\ store \in [StoredIds -> {[SeedRow EXCEPT !.stack = e] : e \in StoredEncodings}]
    /\ today = 0
    /\ last = NoCall
    /\ highest = 0
    /\ inflight = [w \in Calls |-> Idle]

NextDecode == Fetch \/ List

SpecDecode == InitDecode /\ [][NextDecode]_vars

---------------------------------------------------------------------------
(* Handlers that run at the same time.  A handler is a plain "def", which  *)
(* the server runs on a thread of its pool, each with a connection of its  *)
(* own.  Its SELECT runs outside any transaction (sqlite3 opens one only   *)
(* before an INSERT, UPDATE or DELETE), so another handler may commit      *)
(* between the SELECT and the write; the write and the commit that follows *)
(* it hold the write lock of the database and are one step.                *)

(* The handler of call w returns or raises: the response goes out *)
Respond(w, op, app_id, status, detail) ==
    /\ last' = [NoCall EXCEPT !.op = op, !.id = app_id, !.status = status,
                              !.detail = detail]
    /\ inflight' = [inflight EXCEPT ![w] = [Idle EXCEPT !.pc = "done", !.op = op,
                                                         !.app_id = app_id,
                                                         !.status = status]]

(* The handler of call w goes on with what its SELECT returned *)
Proceed(w, held) ==
    /\ inflight' = [inflight EXCEPT ![w] = held]
    /\ UNCHANGED last

(* "UPDATE applications SET ... WHERE id=?" of r_update: the columns it   *)
(* names, on the row the table holds now                                   *)
UpdateWhere(st, id, row) ==
    IF id \notin DOMAIN st THEN st
    ELSE [st EXCEPT ![id] = [row EXCEPT !.decommissioned = st[id].decommissioned,
                                        !.decomm_date = st[id].decomm_date,
                                        !.decomm_reason = st[id].decomm_reason]]

(* r_update up to its guards: the SELECT, the 404 and the 400 *)
r_update_select(w, app_id, body) ==
    /\ inflight[w].pc = "idle"
    /\ UNCHANGED <<store, today, highest>>
    /\ IF app_id \notin DOMAIN store
       THEN Respond(w, "update", app_id, 404, "not found")
       ELSE IF IsDecommissioned(store[app_id])
       THEN Respond(w, "update", app_id, 400,
                    "Cannot update a decommissioned application")
       ELSE Proceed(w, [Idle EXCEPT !.pc = "update", !.op = "update",
                                    !.app_id = app_id, !.body = body,
                                    !.row = <<store[app_id]>>])

(* r_update from the merge on: the UPDATE built from the row read, commit *)
r_update_write(w) ==
    /\ inflight[w].pc = "update"
    /\ UNCHANGED <<today, highest>>
    /\ LET c == inflight[w]
           row == UpdateRow(c.row[1], c.body, today)
       IN  IF Overflows(row)
           THEN /\ Respond(w, "update", c.app_id, 500, "OverflowError")
                /\ UNCHANGED store
           ELSE /\ store' = UpdateWhere(store, c.app_id, row)
                /\ Respond(w, "update", c.app_id, 200, "Updated")

(* r_decommission up to its guards *)
r_decommission_select(w, app_id, body) ==
    /\ inflight[w].pc = "idle"
    /\ UNCHANGED <<store, today, highest>>
    /\ IF app_id \notin DOMAIN store
       THEN Respond(w, "decommission", app_id, 404, "not found")
       ELSE IF IsDecommissioned(store[app_id])
       THEN Respond(w, "decommission", app_id, 400, "Already decommissioned")
       ELSE Proceed(w, [Idle EXCEPT !.pc = "decommission", !.op = "decommission",
                                    !.app_id = app_id, !.decomm = body])

(* The UPDATE of r_decommission, on the row the table holds now, commit *)
r_decommission_write(w) ==
    /\ inflight[w].pc = "decommission"
    /\ UNCHANGED <<today, highest>>
    /\ LET c == inflight[w]
       IN  /\ store' = IF c.app_id \in DOMAIN store
                       THEN Put(store, c.app_id,
                                DecommissionRow(store[c.app_id], c.decomm, today))
                       ELSE store
           /\ Respond(w, "decommission", c.app_id, 200, "Decommissioned")

(* r_create up to next_id: the name check and the SELECT of the largest id *)
r_create_select(w, body) ==
    /\ inflight[w].pc = "idle"
    /\ Cardinality(DOMAIN store) < MaxRaceRows
    /\ UNCHANGED <<store, today, highest>>
    /\ IF ~NameGiven(body.name)
       THEN Respond(w, "create", <<>>, 400, "name is required")
       ELSE \E aid \in next_id(store) :
              Proceed(w, [Idle EXCEPT !.pc = "create", !.op = "create",
                                      !.app_id = aid, !.body = body])

(* A table whose id column is not a key *)
NoPrimaryKey(st, id) == FALSE

(* "id TEXT PRIMARY KEY": an INSERT of an id the table holds fails *)
PrimaryKeyTaken(st, id) == id \in DOMAIN st

(* The INSERT of r_create with the id read before, commit *)
r_create_insert(w) ==
    /\ inflight[w].pc = "create"
    /\ UNCHANGED today
    /\ LET c == inflight[w]
           row == CreateRow(c.body, today)
       IN  IF Overflows(row)
           THEN /\ Respond(w, "create", c.app_id, 500, "OverflowError")
                /\ UNCHANGED <<store, highest>>
           ELSE IF PrimaryKeyTaken(store, c.app_id)
           THEN /\ Respond(w, "create", c.app_id, 500, "IntegrityError")
                /\ UNCHANGED <<store, highest>>
           ELSE /\ store' = Put(store, c.app_id, row)
                /\ highest' = IF SortKey(c.app_id) > highest THEN SortKey(c.app_id)
                              ELSE highest
                /\ Respond(w, "create", c.app_id, 201, "Created")

RaceCreateBodies == {AppWrite, [AppWrite EXCEPT !.name = Some(NameA)]}

UpdateSelect ==
    \E w \in Calls, app_id \in TargetIds :
       r_update_select(w, app_id, [AppWrite EXCEPT !.name = Some(NameB)])

UpdateWrite == \E w \in Calls : r_update_write(w)

DecommissionSelect ==
    \E w \in Calls, app_id \in TargetIds : r_decommission_select(w, app_id, DecommBody)

DecommissionWrite == \E w \in Calls : r_decommission_write(w)

CreateSelect == \E w \in Calls, body \in RaceCreateBodies : r_create_select(w, body)

CreateInsert == \E w \in Calls : r_create_insert(w)

NextRace ==
    \/ UpdateSelect \/ UpdateWrite
    \/ DecommissionSelect \/ DecommissionWrite
    \/ CreateSelect \/ CreateInsert

SpecRace == Init /\ [][NextRace]_vars

---------------------------------------------------------------------------
(* Vocabulary of the properties, stated without the handlers' own tests *)

IsBlankText(s) == \A i \in 1..Len(s) : s[i] = " "

(* A candidate without an id, or whose name is absent or blank *)
LacksIdOrName(a) ==
    \/ a.id = None
    \/ a.id = Some(<<>>)
    \/ a.name = None
    \/ IsBlankText(a.name[1])

(* A candidate whose write fails: an integer that sqlite3 cannot bind *)
WriteFails(a) == ~LacksIdOrName(a) /\ a.tco # None /\ a.tco[1] > SqliteIntMax

CountWhere(apps, P(_)) == Cardinality({i \in 1..Len(apps) : P(apps[i])})

(* The batches and requests that the properties below are about *)
NoValidBatches == {apps \in Batches : \A i \in 1..Len(apps) : LacksIdOrName(apps[i])}

MalformedRequests ==
    {req \in ImportRequests : req[2] \notin {"upsert", "replace"} \/ Len(req[1]) = 0}

InvalidCarryingRequests ==
    {req \in ImportRequests : \E i \in 1..Len(req[1]) : LacksIdOrName(req[1][i])}

FailingRequests ==
    {req \in Batches \X Modes :
        /\ \E i \in 1..Len(req[1]) : WriteFails(req[1][i])
        /\ \E i \in 1..Len(req[1]) : ~LacksIdOrName(req[1][i]) /\ ~WriteFails(req[1][i])}

Rejections ==
    {"Cannot update a decommissioned application", "Already decommissioned"}

(* C1: once a record is decommissioned, every update or decommission call *)
(* on its id is rejected (HTTP 400, the invalid-state rejection) and no    *)
(* field of any record changes: decommission date and reason, status and   *)
(* last_updated included.                                                  *)
C1_DecommissionedIsFrozen ==
    [][\A app_id \in DOMAIN store :
          (/\ store[app_id].decommissioned = 1
           /\ \/ \E body \in UpdateBodies : r_update(app_id, body)
              \/ \E body \in DecommBodies : r_decommission(app_id, body))
          => (/\ last'.status = 400
              /\ last'.detail \in Rejections
              /\ store' = store)]_vars

(* An update was refused on a record decommissioned on an earlier day *)
C1_Witness ==
    /\ last.op = "update"
    /\ last.status = 400
    /\ last.detail = "Cannot update a decommissioned application"
    /\ last.id \in DOMAIN store
    /\ store[last.id].decommissioned = 1
    /\ store[last.id].status = "Decommissioned"
    /\ store[last.id].last_updated < today

(* C2: a replace whose batch holds no valid candidate leaves the table as  *)
(* it was: the clear is never done before a valid candidate is known.      *)
C2_ReplaceKeepsStoreWithoutValid ==
    [][\A apps \in NoValidBatches : r_import(apps, "replace") => store' = store]_vars

(* A replace of invalid candidates was refused and the rows are still there *)
C2_Witness ==
    /\ last.op = "import"
    /\ last.detail = "No valid apps to import"
    /\ Cardinality(DOMAIN store) >= 2

(* C3: a reconcile with an unknown mode, or with an empty batch, is        *)
(* rejected as a whole (HTTP 400) and the table is as it was.              *)
C3_MalformedRequestRejected ==
    [][\A req \in MalformedRequests :
          r_import(req[1], req[2])
          => (/\ last'.status = 400
              /\ last'.detail \in {"Invalid mode", "No apps provided"}
              /\ store' = store)]_vars

(* A non-empty batch was refused for its mode *)
C3_Witness ==
    /\ last.op = "import"
    /\ last.status = 400
    /\ last.detail = "Invalid mode"
    /\ DOMAIN store # {}

C6_WriteFailureIsolated ==
    [][\A req \in FailingRequests :
          r_import(req[1], req[2])
          => (/\ last'.status = 200
              /\ last'.errors = CountWhere(req[1], LacksIdOrName)
                                + CountWhere(req[1], WriteFails)
              /\ \A i \in 1..Len(req[1]) :
                    (~LacksIdOrName(req[1][i]) /\ ~WriteFails(req[1][i]))
                    => (/\ req[1][i].id[1] \in DOMAIN store'
                        /\ (\A j \in (i + 1)..Len(req[1]) :
                               LacksIdOrName(req[1][j]) \/ WriteFails(req[1][j])
                                  \/ req[1][j].id[1] # req[1][i].id[1])
                            => (/\ store'[req[1][i].id[1]].name = req[1][i].name[1]
                                /\ store'[req[1][i].id[1]].last_updated = today)))]_vars

(* The write between two others failed; both others are in the table *)
C6_Witness ==
    /\ last.op = "import"
    /\ last.status = 200
    /\ last.errors = 1
    /\ last.added + last.updated = 2
    /\ AppId(2) \in DOMAIN store
    /\ AppId(999) \in DOMAIN store
    /\ store[AppId(2)].name = NameA
    /\ store[AppId(999)].name = NameB

(* Ids of the form APP-<digits>, and the number they carry *)
WellFormedId(id) ==
    /\ Len(id) >= 5
    /\ SubSeq(id, 1, 4) = <<"A", "P", "P", "-">>
    /\ \A i \in 5..Len(id) : IsDigit(id[i])

IdNumber(id) == DigitsValue(Substr(id, 5))

SetMax(S) == CHOOSE n \in S : \A m \in S : m <= n

D(n) == Digits[n + 1]

(* "APP-" and n in decimal, with zeros in front up to three digits *)
PaddedId(n) ==
    <<"A", "P", "P", "-">> \o
    (IF n < 10 THEN <<"0", "0", D(n)>>
     ELSE IF n < 100 THEN <<"0", D(n \div 10), D(n % 10)>>
     ELSE IF n < 1000 THEN <<D(n \div 100), D((n \div 10) % 10), D(n % 10)>>
     ELSE <<D(n \div 1000), D((n \div 100) % 10), D((n \div 10) % 10), D(n % 10)>>)

ExpectedId(st) ==
    IF DOMAIN st = {} THEN <<"A", "P", "P", "-", "0", "0", "1">>
    ELSE PaddedId(SetMax({IdNumber(i) : i \in DOMAIN st}) + 1)

HasName(body) == body.name # None /\ ~IsBlankText(body.name[1])

Bindable(body) == body.tco = None \/ body.tco[1] <= SqliteIntMax

(* C7 as claimed: every id that a create returns carries a number greater  *)
(* than that of every id a create returned before, whatever calls came in  *)
(* between.                                                                *)
C7_AsClaimed ==
    [][\A body \in CreateBodies :
          (r_create(body) /\ last'.status = 201) => IdNumber(last'.id) > highest]_vars

(* C8: a create on a table whose ids all read APP-<digits> returns         *)
(* APP-001 when the table is empty and otherwise "APP-" with the greatest  *)
(* number among the ids present plus one, padded to three digits and not   *)
(* cut at three; the id is new and its row is written.  The id depends on  *)
(* the table alone, so also right after a reconcile brought in ids.        *)
C8_NextIdFromStore ==
    [][\A body \in CreateBodies :
          (/\ HasName(body) /\ Bindable(body)
           /\ \A i \in DOMAIN store : WellFormedId(i)
           /\ r_create(body))
          => (/\ last'.status = 201
              /\ last'.id = ExpectedId(store)
              /\ last'.id \notin DOMAIN store
              /\ last'.id \in DOMAIN store')]_vars

(* A create after APP-999 was imported returned APP-1000 *)
C8_Witness ==
    /\ last.op = "create"
    /\ last.status = 201
    /\ last.id = <<"A", "P", "P", "-", "1", "0", "0", "0">>
    /\ AppId(999) \in DOMAIN store
    /\ last.id \in DOMAIN store

(* C9 as claimed: a create with a name (and integers that can be stored)   *)
(* succeeds in every table that creates and reconciles can produce, and    *)
(* the id it returns was not in the table.                                 *)
C9_AsClaimed ==
    [][\A body \in CreateBodies :
          (HasName(body) /\ Bindable(body) /\ r_create(body))
          => (last'.status = 201 /\ last'.id \notin DOMAIN store)]_vars

(* C10 as claimed: a listing is in ascending order of the number after     *)
(* "APP-".                                                                 *)
C10_AsClaimed ==
    last.op = "list"
    => \A i, j \in 1..Len(last.listing) :
          (i < j /\ WellFormedId(last.listing[i]) /\ WellFormedId(last.listing[j]))
          => IdNumber(last.listing[i]) < IdNumber(last.listing[j])

---------------------------------------------------------------------------
(* Reconciliation of single records *)

(* The fields of a candidate as a create or update body: all but the id *)
BodyOf(a) == [f \in DOMAIN AppWrite |-> a[f]]

(* Batches of one candidate that is valid and whose write succeeds *)
SingleBatches ==
    {apps \in Batches :
        Len(apps) = 1 /\ ~LacksIdOrName(apps[1]) /\ ~WriteFails(apps[1])}

(* Batches of valid candidates with different ids whose writes succeed *)
CleanBatches ==
    {apps \in Batches :
        /\ apps # <<>>
        /\ \A i \in 1..Len(apps) : ~LacksIdOrName(apps[i]) /\ ~WriteFails(apps[i])
        /\ \A i, j \in 1..Len(apps) : apps[i].id = apps[j].id => i = j}

(* C11 as claimed: an upsert of one candidate whose id is in the table     *)
(* returns {added 0, updated 1, errors 0, total 1}, writes the fields the  *)
(* candidate supplies, and leaves every field it does not supply (all but  *)
(* last_updated) as it was.                                                *)
C11_AsClaimed ==
    [][\A apps \in SingleBatches :
          (apps[1].id[1] \in DOMAIN store /\ r_import(apps, "upsert"))
          => LET a == apps[1]
                 id == a.id[1]
             IN  /\ last'.added = 0 /\ last'.updated = 1
                 /\ last'.errors = 0 /\ last'.total = 1
                 /\ store'[id].name = a.name[1]
                 /\ \A f \in (DOMAIN store[id]) \ {"name", "last_updated"} :
                       (f \in DOMAIN a /\ a[f] # None) \/ store'[id][f] = store[id][f]]_vars

(* C12 as claimed: for a valid candidate whose id is not in the table (in  *)
(* replace mode the table is cleared first), reconcile writes under the    *)
(* candidate's id the row that create writes for the same fields.          *)
C12_AsClaimed ==
    [][\A apps \in SingleBatches, mode \in Modes :
          (/\ mode = "upsert" => apps[1].id[1] \notin DOMAIN store
           /\ r_import(apps, mode))
          => (/\ apps[1].id[1] \in DOMAIN store'
              /\ store'[apps[1].id[1]] = CreateRow(BodyOf(apps[1]), today))]_vars

(* C13 as claimed: in either mode a valid candidate whose id is that of a  *)
(* decommissioned row is written and counted in updated, and is not an     *)
(* error.                                                                  *)
C13_AsClaimed ==
    [][\A apps \in LifecycleBatches, mode \in Modes :
          (/\ apps[1].id[1] \in DOMAIN store
           /\ store[apps[1].id[1]].decommissioned = 1
           /\ r_import(apps, mode))
          => (/\ last'.status = 200 /\ last'.errors = 0
              /\ last'.updated = 1
              /\ store'[apps[1].id[1]].name = apps[1].name[1])]_vars

(* C13 amended: a valid candidate whose id is that of a decommissioned row *)
(* is never refused nor counted as an error, and its fields are written.   *)
(* An upsert counts it in updated; a replace has cleared the table before  *)
(* it looks the id up, so it inserts the candidate and counts it in added. *)
C13_ReconcileIgnoresDecommission ==
    [][\A apps \in LifecycleBatches, mode \in Modes :
          (/\ apps[1].id[1] \in DOMAIN store
           /\ store[apps[1].id[1]].decommissioned = 1
           /\ r_import(apps, mode))
          => (/\ last'.status = 200 /\ last'.errors = 0
              /\ mode = "upsert" => (last'.updated = 1 /\ last'.added = 0)
              /\ mode = "replace" => (last'.updated = 0 /\ last'.added = 1)
              /\ store'[apps[1].id[1]].name = apps[1].name[1]
              /\ store'[apps[1].id[1]].last_updated = today)]_vars

(* An upsert has renamed a row that is decommissioned *)
C13_Witness ==
    /\ last.op = "import"
    /\ last.status = 200
    /\ last.updated = 1
    /\ AppId(1) \in DOMAIN store
    /\ store[AppId(1)].decommissioned = 1
    /\ store[AppId(1)].name = NameB

(* The state an upsert of the batch leaves when all its candidates were    *)
(* new: the response counts them all as added and their rows are the       *)
(* inserted ones                                                           *)
JustAdded(apps) ==
    /\ last.op = "import" /\ last.status = 200
    /\ last.added = Len(apps) /\ last.updated = 0 /\ last.errors = 0
    /\ \A i \in 1..Len(apps) :
          /\ apps[i].id[1] \in DOMAIN store
          /\ store[apps[i].id[1]] = ImportInsertRow(apps[i], today)

(* C14 as claimed: the second of two upserts of the same batch of N new    *)
(* valid candidates returns added = N and updated = 0.                     *)
C14_AsClaimed ==
    [][\A apps \in CleanBatches :
          (JustAdded(apps) /\ r_import(apps, "upsert"))
          => (last'.added = Len(apps) /\ last'.updated = 0)]_vars

(* C14 amended: the second of two upserts of the same batch of N new valid *)
(* candidates finds them all in the table and returns added = 0,           *)
(* updated = N, errors = 0, total = N.                                     *)
C14_SecondUpsertUpdates ==
    [][\A apps \in CleanBatches :
          (JustAdded(apps) /\ r_import(apps, "upsert"))
          => (/\ last'.added = 0 /\ last'.updated = Len(apps)
              /\ last'.errors = 0 /\ last'.total = Len(apps))]_vars

(* The second upsert of APP-999 has been answered: one update, no insert *)
C14_Witness ==
    /\ last.op = "import"
    /\ last.status = 200
    /\ last.added = 0 /\ last.updated = 1 /\ last.errors = 0
    /\ AppId(999) \in DOMAIN store
    /\ store[AppId(999)] = ImportInsertRow(NewB, today)
    /\ AppId(1) \in DOMAIN store
    /\ store[AppId(1)] = SeedRow

(* C15: an upsert is idempotent on the table: in the table an upsert has   *)
(* left, the same batch upserted again on the same date changes no row.    *)
C15_UpsertIdempotent ==
    [][\A apps \in Batches :
          (r_import(apps, "upsert") /\ last'.status = 200)
          => ImportResult(store', apps, "upsert", today').store = store']_vars

(* An upsert with an update, an insert and a failed write has been applied *)
(* and applying it again gives the same table                              *)
C15_Witness ==
    /\ last.op = "import"
    /\ last.status = 200
    /\ last.errors = 1
    /\ last.added + last.updated = 2
    /\ AppId(999) \in DOMAIN store
    /\ ImportResult(store, <<NewA, TooBig, NewB>>, "upsert", today).store = store

---------------------------------------------------------------------------
(* Field values *)

(* C16: a create with only a name, then a read of the id it returned,      *)
(* gives the record with the defaults: health 75, tech_debt 25, status     *)
(* Active, type Package, bcg Tolerate, criticality Medium, strategic 70,   *)
(* persons 1, wave 3, src_avail true, the other flags false, the list      *)
(* empty, not decommissioned.  (The read follows the create at once; among *)
(* the creates of SpecFields only the one with nothing but a name writes   *)
(* the name A.)                                                            *)
C16_CreateDefaultsRead ==
    [][(/\ last.op = "create" /\ last.status = 201
        /\ last.id \in DOMAIN store
        /\ store[last.id].name = NameA
        /\ r_get(last.id))
       => (/\ last'.status = 200
           /\ Len(last'.record) = 1
           /\ LET r == last'.record[1]
              IN  /\ r.name = NameA
                  /\ r.health = 75 /\ r.tech_debt = 25
                  /\ r.status = "Active" /\ r.type = "Package"
                  /\ r.bcg = "Tolerate" /\ r.criticality = "Medium"
                  /\ r.strategic = 70 /\ r.persons = 1 /\ r.wave = 3
                  /\ r.tco = 0
                  /\ r.src_avail = TRUE /\ r.dr = FALSE
                  /\ r.stack = PyList(<<>>)
                  /\ r.decommissioned = FALSE
                  /\ r.decomm_date = None /\ r.decomm_reason = None)]_vars

(* The record of a name-only create has been read *)
C16_Witness ==
    /\ last.op = "get"
    /\ last.status = 200
    /\ last.id # AppId(1)
    /\ Len(last.record) = 1
    /\ last.record[1].name = NameA
    /\ last.record[1].health = 75
    /\ last.record[1].service_hour = Some("Business Hours")
    /\ last.record[1].src_avail = TRUE

(* C17 as claimed: a tech_debt given to create, update or reconcile is the *)
(* tech_debt stored, 0 included, whatever health is.                       *)
C17_AsClaimed ==
    [][/\ \A body \in FieldCreateBodies :
             (body.tech_debt # None /\ r_create(body) /\ last'.status = 201)
             => store'[last'.id].tech_debt = body.tech_debt[1]
       /\ \A app_id \in DOMAIN store, body \in FieldUpdateBodies :
             (body.tech_debt # None /\ r_update(app_id, body) /\ last'.status = 200)
             => store'[app_id].tech_debt = body.tech_debt[1]
       /\ \A apps \in FieldBatches :
             (r_import(apps, "upsert") /\ last'.status = 200 /\ last'.errors = 0)
             => \A i \in 1..Len(apps) :
                   apps[i].tech_debt # None
                   => store'[apps[i].id[1]].tech_debt = apps[i].tech_debt[1]]_vars

(* C18 as claimed: create stores every value it is given: a 0 for health,  *)
(* strategic, persons or wave, and false for src_avail, are stored as      *)
(* given and not replaced by the default.                                  *)
C18_AsClaimed ==
    [][\A body \in FieldCreateBodies :
          (r_create(body) /\ last'.status = 201)
          => (/\ \A f \in {"health", "strategic", "persons", "wave"} :
                    body[f] # None => store'[last'.id][f] = body[f][1]
              /\ body.src_avail # None
                    => store'[last'.id].src_avail = BoolInt(body.src_avail[1]))]_vars

(* C19 as claimed: a successful update stores each supplied field as       *)
(* given, leaves the fields not supplied, the decommission columns and the *)
(* other rows as they were (a tech_debt not supplied may instead be        *)
(* 100 - health), and sets last_updated.                                   *)
C19_AsClaimed ==
    [][\A app_id \in DOMAIN store, body \in FieldUpdateBodies :
          (r_update(app_id, body) /\ last'.status = 200)
          => LET old == store[app_id]
                 new == store'[app_id]
             IN  /\ DOMAIN store' = DOMAIN store
                 /\ \A i \in (DOMAIN store) \ {app_id} : store'[i] = store[i]
                 /\ \A f \in {"name", "health", "tech_debt", "tco", "strategic",
                               "persons", "wave", "status", "type", "bcg",
                               "criticality", "ea_sub_category"} :
                       body[f] # None => new[f] = body[f][1]
                 /\ body.stack # None => JsonLoads(new.stack) = PyList(body.stack[1])
                 /\ \A f \in (DOMAIN body) \ {"tech_debt"} :
                       body[f] = None => new[f] = old[f]
                 /\ body.tech_debt = None
                       => (new.tech_debt = old.tech_debt
                           \/ new.tech_debt = 100 - new.health)
                 /\ new.decommissioned = old.decommissioned
                 /\ new.decomm_date = old.decomm_date
                 /\ new.decomm_reason = old.decomm_reason
                 /\ new.last_updated = today]_vars

(* C20: a successful decommission of a row that is not decommissioned sets *)
(* decommissioned, status "Decommissioned", the date and the reason given  *)
(* and last_updated, and changes nothing else: no other column of the row  *)
(* and no other row.                                                       *)
C20_DecommissionFrame ==
    [][\A app_id \in DOMAIN store :
          (r_decommission(app_id, DecommBody) /\ last'.status = 200)
          => (/\ store[app_id].decommissioned = 0
              /\ DOMAIN store' = DOMAIN store
              /\ \A i \in (DOMAIN store) \ {app_id} : store'[i] = store[i]
              /\ store'[app_id].decommissioned = 1
              /\ store'[app_id].status = "Decommissioned"
              /\ store'[app_id].decomm_date = Some(DecommBody.decomm_date)
              /\ store'[app_id].decomm_reason = DecommBody.decomm_reason
              /\ store'[app_id].last_updated = today
              /\ \A f \in (DOMAIN store[app_id])
                            \ {"decommissioned", "status", "decomm_date",
                               "decomm_reason", "last_updated"} :
                    store'[app_id][f] = store[app_id][f])]_vars

(* A renamed row has been decommissioned beside another row, on a later    *)
(* day than the rename                                                     *)
C20_Witness ==
    /\ last.op = "decommission"
    /\ last.status = 200
    /\ last.id \in DOMAIN store
    /\ store[last.id].decommissioned = 1
    /\ store[last.id].status = "Decommissioned"
    /\ store[last.id].decomm_date = Some("2026-01-31")
    /\ store[last.id].name = NameB
    /\ store[last.id].last_updated = 1
    /\ Cardinality(DOMAIN store) = 2

---------------------------------------------------------------------------
(* Rejected creates, and the frame and the counts of a reconcile *)

(* C21: a create whose name is absent, empty or blank is rejected (HTTP    *)
(* 400, "name is required") and writes nothing: the table is as it was,    *)
(* and so are the ids the next create can get.                             *)
C21_NamelessCreateRejected ==
    [][\A body \in CreateBodies :
          (~HasName(body) /\ r_create(body))
          => (/\ last'.status = 400
              /\ last'.detail = "name is required"
              /\ last'.id = <<>>
              /\ store' = store
              /\ next_id(store') = next_id(store))]_vars

(* A create was rejected for its name in a table that holds an imported    *)
(* APP-999: the next id is still APP-1000                                  *)
C21_Witness ==
    /\ last.op = "create"
    /\ last.status = 400
    /\ last.detail = "name is required"
    /\ AppId(999) \in DOMAIN store
    /\ next_id(store) = {<<"A", "P", "P", "-", "1", "0", "0", "0">>}

(* The ids of the candidates of a batch that have an id and a name *)
ValidIds(apps) == {apps[i].id[1] : i \in {j \in 1..Len(apps) : ~LacksIdOrName(apps[j])}}

(* C22: an upsert removes no row, and leaves every row whose id is not the *)
(* id of a valid candidate of the batch exactly as it was.                 *)
C22_UpsertFrame ==
    [][\A apps \in Batches :
          r_import(apps, "upsert")
          => (/\ DOMAIN store \subseteq DOMAIN store'
              /\ \A id \in (DOMAIN store) \ ValidIds(apps) : store'[id] = store[id])]_vars

(* An upsert has inserted APP-002 beside a created APP-1000, an imported   *)
(* APP-999 and the seed row, which are as they were                        *)
C22_Witness ==
    /\ last.op = "import"
    /\ last.status = 200
    /\ last.added = 1
    /\ DOMAIN store = {AppId(1), AppId(2), AppId(999)}
    /\ store[AppId(1)] = SeedRow
    /\ store[AppId(999)].name = NameB
    /\ store[AppId(2)].name = NameA

(* C27: a reconcile that returns counts accounts for every candidate once: *)
(* total = added + updated and added + updated + errors is the length of   *)
(* the batch, also when the batch repeats an id or a write fails.          *)
C27_CountsAddUp ==
    [][\A req \in Batches \X Modes :
          (r_import(req[1], req[2]) /\ last'.status = 200)
          => (/\ last'.total = last'.added + last'.updated
              /\ last'.added + last'.updated + last'.errors = Len(req[1])
              /\ last'.added >= 0 /\ last'.updated >= 0 /\ last'.errors >= 0)]_vars

(* A batch that names one new id twice has been counted as one insert and  *)
(* one update                                                              *)
C27_Witness ==
    /\ last.op = "import"
    /\ last.status = 200
    /\ last.added = 1 /\ last.updated = 1 /\ last.errors = 0 /\ last.total = 2
    /\ AppId(2) \in DOMAIN store

---------------------------------------------------------------------------
(* Replace, and the permanence of a decommission *)

(* The candidate of the batch that is written last under an id *)
LastFor(apps, id) ==
    apps[CHOOSE i \in 1..Len(apps) :
            /\ ~LacksIdOrName(apps[i]) /\ apps[i].id[1] = id
            /\ \A j \in (i + 1)..Len(apps) :
                  LacksIdOrName(apps[j]) \/ apps[j].id[1] # id]

(* C23: after a replace with a valid candidate and no failed write, the    *)
(* table holds the rows of the valid candidates and nothing else: the ids  *)
(* stored are the ids of the valid candidates, every row of before whose   *)
(* id is not in the batch is gone, and every row is written on the day of  *)
(* the call and is not decommissioned.                                     *)
C23_ReplaceRepopulates ==
    [][\A apps \in ReplaceBatches :
          (/\ ValidIds(apps) # {}
           /\ \A i \in 1..Len(apps) : ~WriteFails(apps[i])
           /\ r_import(apps, "replace"))
          => (/\ last'.status = 200
              /\ DOMAIN store' = ValidIds(apps)
              /\ \A id \in DOMAIN store' :
                    /\ store'[id].decommissioned = 0
                    /\ store'[id].decomm_date = None
                    /\ store'[id].decomm_reason = None
                    /\ store'[id].name = LastFor(apps, id).name[1]
                    /\ store'[id].last_updated = today)]_vars

(* A replace has inserted both of its candidates, APP-001 among them, and  *)
(* no row is decommissioned                                                *)
C23_Witness ==
    /\ last.op = "import"
    /\ last.status = 200
    /\ last.added = 2 /\ last.updated = 0
    /\ DOMAIN store = {AppId(1), AppId(2)}
    /\ store[AppId(1)].name = NameB
    /\ store[AppId(1)].decommissioned = 0
    /\ store[AppId(2)].decommissioned = 0

(* C26 as claimed: whatever the call, a row that is decommissioned before  *)
(* it is not found with decommissioned = false after it.                   *)
C26_AsClaimed ==
    [][\A id \in (DOMAIN store) \cap (DOMAIN store') :
          store[id].decommissioned = 1 => store'[id].decommissioned = 1]_vars

(* C26 amended: create, update, decommission and upsert reconcile neither  *)
(* remove a decommissioned row nor change its decommission columns; the    *)
(* only call after which a decommissioned id can be absent, or present as  *)
(* a row that is not decommissioned, is a successful replace reconcile.    *)
C26_OneWayButReplace ==
    [][\A id \in DOMAIN store :
          store[id].decommissioned = 1
          => \/ /\ id \in DOMAIN store'
                /\ store'[id].decommissioned = 1
                /\ store'[id].decomm_date = store[id].decomm_date
                /\ store'[id].decomm_reason = store[id].decomm_reason
             \/ \E apps \in ReplaceBatches :
                   r_import(apps, "replace") /\ last'.status = 200]_vars

(* An upsert has inserted APP-002 and rewritten APP-001, which is still    *)
(* decommissioned                                                          *)
C26_Witness ==
    /\ last.op = "import"
    /\ last.status = 200
    /\ last.added = 1 /\ last.updated = 1
    /\ DOMAIN store = {AppId(1), AppId(2)}
    /\ store[AppId(1)].decommissioned = 1
    /\ store[AppId(1)].decomm_date = Some("2026-01-31")
    /\ store[AppId(1)].name = NameB

---------------------------------------------------------------------------
(* Status of the decommissioned rows *)

---------------------------------------------------------------------------
(* Names *)

(* C25 as claimed: in every reachable state the name of every row is       *)
(* neither empty nor blank.                                                *)
C25_AsClaimed == \A id \in DOMAIN store : ~IsBlankText(store[id].name)

(* The stored text of the list column is NULL, empty or not JSON *)
NullEmptyOrMalformed(t) == t = <<>> \/ ~JsonDecode(t).ok

IsStringSequence(v) == v.type = "list" /\ v.of \subseteq {"str"}

(* C24 as claimed: reading a record never fails because of the stored     *)
(* encoding of its list column: the read returns the record, a NULL,       *)
(* empty or malformed encoding is read as the empty sequence, and the      *)
(* decoded value is always an ordered sequence of strings.                 *)
C24_AsClaimed ==
    [][\A app_id \in DOMAIN store :
          r_get(app_id)
          => /\ last'.status = 200
             /\ Len(last'.record) = 1
             /\ IsStringSequence(last'.record[1].stack)
             /\ NullEmptyOrMalformed(store[app_id].stack)
                   => last'.record[1].stack = PyList(<<>>)]_vars

(* C28 as claimed: when an update and a decommission of one record run at  *)
(* the same time, each is one atomic unit: the write of an update that     *)
(* returns 200 never lands on a record that a decommission has already     *)
(* committed.                                                              *)
C28_AsClaimed ==
    [][\A w \in Calls :
          (r_update_write(w) /\ last'.status = 200)
          => ~IsDecommissioned(store[inflight[w].app_id])]_vars

Created(w) ==
    inflight[w].pc = "done" /\ inflight[w].op = "create" /\ inflight[w].status = 201

(* C29: two creates that run at the same time, each having read the       *)
(* largest id before the other inserted, never both return the same id;    *)
(* the record of an id is the one its create inserted.                     *)
C29_ConcurrentCreatesDistinct ==
    \A w1, w2 \in Calls :
       (w1 # w2 /\ Created(w1) /\ Created(w2))
       => /\ inflight[w1].app_id # inflight[w2].app_id
          /\ inflight[w1].app_id \in DOMAIN store
          /\ inflight[w2].app_id \in DOMAIN store

(* Two creates read the same largest id; one returned the id, the other    *)
(* failed on the key                                                       *)
C29_Witness ==
    \E w1, w2 \in Calls :
       /\ w1 # w2
       /\ Created(w1)
       /\ inflight[w2].pc = "done" /\ inflight[w2].op = "create"
       /\ inflight[w2].status = 500
       /\ inflight[w2].app_id = inflight[w1].app_id
       /\ last.detail = "IntegrityError"

====
